---- MODULE Spec2Model ----
(***************************************************************************)
(* Model of dashboard.py: the Streamlit script that connects to Supabase,  *)
(* fetches the conversation histories, classifies them into leads and      *)
(* escalations by substring matching, and renders metrics, the activity    *)
(* chart and the three tables.  One run of the script is one behaviour.    *)
(***************************************************************************)
EXTENDS Integers, Sequences, FiniteSets, TLC

VARIABLES
    env,                  \* os.environ: [url, key], each None, "" or a value
    pc,                   \* position of the script
    supabase,             \* the module-level client (None until created)
    queries,              \* tables queried so far, in order
    conversations,        \* result of fetch_conversation_history()
    knowledge_base_count, \* result of fetch_knowledge_base_info()
    last_ingested,        \* result of fetch_ingestion_log(): <<>> is None, else <<t>>
    leads,                \* main(): leads
    escalations,          \* main(): escalations
    metrics,              \* the st.metric values shown: <<>> until rendered
    conv_by_date,         \* the data frame behind the line chart
    recent,               \* conversations whose expander was rendered in tab1
    lead_rows,            \* rows of the Leads table
    esc_rows,             \* rows of the Escalations table
    error                 \* what ended the script early, if anything

vars == <<env, pc, supabase, queries, conversations, knowledge_base_count,
          last_ingested, leads, escalations, metrics, conv_by_date, recent,
          lead_rows, esc_rows, error>>

\* ---------------------------------------------------------------- bounds
MaxHist == 3      \* longest history of the single-conversation inputs
MaxBatch == 2     \* conversations in the small-batch inputs
MaxConvs == 12    \* conversations in the timeline inputs
MaxTick == 5      \* largest updated_at of the free-timestamp inputs
TicksPerDay == 4  \* clock ticks in one calendar day
MaxDocs == 1      \* largest document count the store reports

\* ------------------------------------------------------- values and text
None == "None"          \* Python's None, where the other values are strings

\* A dict is a record; a key the dict lacks is a field the record lacks.
HasKey(dict, key) == key \in DOMAIN dict

\* Message text is a sequence of fragments; a fragment stands for the run of
\* characters written next to it.
Ive == "I've"
Sched == " scheduled your 7-day free trial"
Sent == " sent these details to our party coordinators"
Passed == " passed your request"
OnTo == " on to our team"
Txt == " ..."

\* The string literals of the script.
TrialPhrase == <<Ive, Sched>>
PartyPhrase == <<Ive, Sent>>
EscalationPhrase == <<Ive, Passed, OnTo>>
LeadDetailPhrase_TrialOnly == <<Ive, Sched>>
LeadDetailPhrase == <<Ive>>
EscDetailPhrase == <<Ive, Passed>>

\* Python's  phrase in content  for strings: a contiguous occurrence.
Contains(content, phrase) ==
    \E i \in 0..(Len(content) - Len(phrase)) :
        SubSeq(content, i + 1, i + Len(phrase)) = phrase

\* message['type'] == 'ai'
IsAI_AnyType(message) == TRUE
IsAI(message) == message.type = "ai"

\* conv.get('history', [])
GetHistory(conv) == IF HasKey(conv, "history") THEN conv.history ELSE <<>>

\* ------------------------------------------------- the classification pass
\* The body of  for message in conv.get('history', [])  from message i on.
\* acc is [leads, escalations, raised]; a raised exception leaves the loops.
RECURSIVE ScanMessages(_, _, _, _)
ScanMessages(conv, history, i, acc) ==
    IF i > Len(history) THEN acc
    ELSE LET message == history[i] IN
         IF ~IsAI(message) THEN ScanMessages(conv, history, i + 1, acc)
         ELSE IF ~HasKey(message.data, "content")
              THEN [acc EXCEPT !.raised = "KeyError"]
         ELSE LET content == message.data.content IN
              IF Contains(content, TrialPhrase)
              THEN ScanMessages(conv, history, i + 1,
                                [acc EXCEPT !.leads = Append(@, conv)])
              ELSE IF Contains(content, PartyPhrase)
              THEN ScanMessages(conv, history, i + 1,
                                [acc EXCEPT !.leads = Append(@, conv)])
              ELSE IF Contains(content, EscalationPhrase)
              THEN ScanMessages(conv, history, i + 1,
                                [acc EXCEPT !.escalations = Append(@, conv)])
              ELSE ScanMessages(conv, history, i + 1, acc)

\* for conv in conversations, from conversation k on.
RECURSIVE ClassifyFrom(_, _, _)
ClassifyFrom(convs, k, acc) ==
    IF k > Len(convs) \/ acc.raised # None THEN acc
    ELSE ClassifyFrom(convs, k + 1,
                      ScanMessages(convs[k], GetHistory(convs[k]), 1, acc))

Classify(convs) ==
    ClassifyFrom(convs, 1, [leads |-> <<>>, escalations |-> <<>>, raised |-> None])

\* ------------------------------------------------------ the activity chart
\* pd.to_datetime(...).dt.date: the calendar day of a timestamp.
DateOf_KeepsTime(updated_at) == updated_at
DateOf(updated_at) == updated_at \div TicksPerDay

\* One more row of date d for groupby('date').size(): rows stay sorted by date.
RECURSIVE AddToGroup(_, _)
AddToGroup(rows, d) ==
    IF rows = <<>> THEN <<[date |-> d, counts |-> 1]>>
    ELSE IF Head(rows).date = d
         THEN <<[Head(rows) EXCEPT !.counts = @ + 1]>> \o Tail(rows)
    ELSE IF Head(rows).date > d
         THEN <<[date |-> d, counts |-> 1]>> \o rows
    ELSE <<Head(rows)>> \o AddToGroup(Tail(rows), d)

RECURSIVE GroupBySize(_, _, _)
GroupBySize(convs, k, rows) ==
    IF k > Len(convs) THEN rows
    ELSE GroupBySize(convs, k + 1, AddToGroup(rows, DateOf(convs[k].updated_at)))

\* df.groupby('date').size().reset_index(name='counts')
ConvByDate(convs) == GroupBySize(convs, 1, <<>>)

\* ------------------------------------------------------------- the tables
RecentCap == 10

\* Where conv goes in a list sorted by updated_at, newest first; equal keys keep
\* their order of arrival (Python's sort is stable, also with reverse=True).
RECURSIVE InsertDesc(_, _)
InsertDesc(sorted, conv) ==
    IF sorted = <<>> THEN <<conv>>
    ELSE IF Head(sorted).updated_at >= conv.updated_at
         THEN <<Head(sorted)>> \o InsertDesc(Tail(sorted), conv)
    ELSE <<conv>> \o sorted

RECURSIVE InsertAsc(_, _)
InsertAsc(sorted, conv) ==
    IF sorted = <<>> THEN <<conv>>
    ELSE IF Head(sorted).updated_at <= conv.updated_at
         THEN <<Head(sorted)>> \o InsertAsc(Tail(sorted), conv)
    ELSE <<conv>> \o sorted

RECURSIVE SortFrom(_, _, _)
SortFrom(convs, k, sorted) ==
    IF k > Len(convs) THEN sorted
    ELSE SortFrom(convs, k + 1, InsertDesc(sorted, convs[k]))

RECURSIVE SortAscFrom(_, _, _)
SortAscFrom(convs, k, sorted) ==
    IF k > Len(convs) THEN sorted
    ELSE SortAscFrom(convs, k + 1, InsertAsc(sorted, convs[k]))

\* sorted(conversations, key=lambda x: x['updated_at'], reverse=True)
SortedConvs_Ascending(convs) == SortAscFrom(convs, 1, <<>>)
SortedConvs(convs) == SortFrom(convs, 1, <<>>)

\* sorted_convs[:10]
TopRecent(convs) ==
    LET s == SortedConvs(convs) IN
    SubSeq(s, 1, IF Len(s) < RecentCap THEN Len(s) ELSE RecentCap)

\* Whether rendering the messages of conv in its expander raises: conv['history']
\* and message['data']['content'] are plain subscripts.
RendersCleanly(conv) ==
    /\ HasKey(conv, "history")
    /\ \A i \in 1..Len(conv.history) : HasKey(conv.history[i].data, "content")

\* The loop over sorted_convs[:10], from entry i on. acc is [shown, raised]; the
\* expander of a conversation exists before its messages are written.
RECURSIVE RenderRecent(_, _, _)
RenderRecent(top, i, acc) ==
    IF i > Len(top) THEN acc
    ELSE IF RendersCleanly(top[i])
         THEN RenderRecent(top, i + 1, [acc EXCEPT !.shown = Append(@, top[i])])
    ELSE [shown |-> Append(acc.shown, top[i]), raised |-> "KeyError"]

\* strftime('%Y-%m-%d %H:%M') of a timestamp: the day and the time in the day.
StrfTime(updated_at) ==
    [date |-> updated_at \div TicksPerDay, time |-> updated_at % TicksPerDay]

\* [msg['data']['content'] for msg in conv['history']
\*      if msg['type'] == 'ai' and phrase in msg['data']['content']]
\* from message i on. acc is [list, raised].
RECURSIVE FilterDetails(_, _, _, _)
FilterDetails(history, phrase, i, acc) ==
    IF i > Len(history) THEN acc
    ELSE LET msg == history[i] IN
         IF ~IsAI(msg) THEN FilterDetails(history, phrase, i + 1, acc)
         ELSE IF ~HasKey(msg.data, "content")
              THEN [acc EXCEPT !.raised = "KeyError"]
         ELSE IF Contains(msg.data.content, phrase)
              THEN FilterDetails(history, phrase, i + 1,
                                 [acc EXCEPT !.list = Append(@, msg.data.content)])
         ELSE FilterDetails(history, phrase, i + 1, acc)

\* One row of a detail table: [...][0] raises IndexError on an empty list.
DetailRow(conv, phrase) ==
    IF ~HasKey(conv, "history") THEN [raised |-> "KeyError"]
    ELSE LET f == FilterDetails(conv.history, phrase, 1,
                                [list |-> <<>>, raised |-> None]) IN
         IF f.raised # None THEN [raised |-> f.raised]
         ELSE IF f.list = <<>> THEN [raised |-> "IndexError"]
         ELSE [raised |-> None,
               row |-> [conversation_id |-> conv.conversation_id,
                        last_updated |-> StrfTime(conv.updated_at),
                        details |-> f.list[1]]]

\* The list comprehension over the classified conversations, from entry i on.
\* acc is [rows, raised].
RECURSIVE DetailRows(_, _, _, _)
DetailRows(classified, phrase, i, acc) ==
    IF i > Len(classified) THEN acc
    ELSE LET row == DetailRow(classified[i], phrase) IN
         IF row.raised # None THEN [acc EXCEPT !.raised = row.raised]
         ELSE DetailRows(classified, phrase, i + 1,
                         [acc EXCEPT !.rows = Append(@, row.row)])

LeadsTable(classified) ==
    DetailRows(classified, LeadDetailPhrase, 1, [rows |-> <<>>, raised |-> None])

EscalationsTable(classified) ==
    DetailRows(classified, EscDetailPhrase, 1, [rows |-> <<>>, raised |-> None])

\* ------------------------------------------------------ what the store holds
Msg(type, content) == [type |-> type, data |-> [content |-> content]]
MsgNoContent(type) == [type |-> type, data |-> [additional_kwargs |-> "{}"]]

Conv(id, history, updated_at) ==
    [conversation_id |-> id, history |-> history, updated_at |-> updated_at]
ConvNoHistory(id, updated_at) ==
    [conversation_id |-> id, updated_at |-> updated_at]

AIContents ==
    { <<Txt>>, <<Ive, Txt>>, <<Ive, Sched>>, <<Ive, Sent>>,
      <<Ive, Passed, OnTo>>, <<Ive, Passed, Txt>>,
      <<Txt, Ive, Passed, OnTo, Txt, Ive, Sched>> }
HumanContents == { <<Txt>>, <<Ive, Sched>>, <<Ive, Passed, OnTo>> }

Messages ==
    {Msg("ai", c) : c \in AIContents} \cup {MsgNoContent("ai")}
    \cup {Msg("human", c) : c \in HumanContents} \cup {MsgNoContent("human")}

MarkerMessages ==
    {Msg("ai", c) : c \in {<<Ive, Sched>>, <<Ive, Sent>>, <<Ive, Passed, OnTo>>}}

Histories(n) == UNION {[1..k -> Messages] : k \in 0..n}
ShortHistories == Histories(1) \cup [1..2 -> MarkerMessages]

\* One conversation with any history up to MaxHist messages, or none at all.
DeepInputs ==
    {<<Conv(1, h, 0)>> : h \in Histories(MaxHist)} \cup {<<ConvNoHistory(1, 0)>>}

\* Several conversations with short histories.
BatchInputs ==
    UNION {{[i \in 1..n |-> Conv(i, hs[i], i)] : hs \in [1..n -> ShortHistories]}
           : n \in 2..MaxBatch}

\* Up to MaxConvs conversations (or none) with updated_at values spread over a
\* few days in many orders.
TimelineInputs ==
    {[i \in 1..n |-> Conv(i, <<>>, (a * i + b) % (MaxConvs + 1))]
       : n \in 0..MaxConvs, a \in 1..MaxConvs, b \in 0..MaxConvs}

\* A few conversations with any updated_at values, equal ones included.
FreeInputs ==
    UNION {{[i \in 1..n |-> Conv(i, <<>>, ts[i])] : ts \in [1..n -> 0..MaxTick]}
           : n \in 1..(MaxBatch + 1)}

StoredConversations == DeepInputs \cup BatchInputs \cup TimelineInputs \cup FreeInputs

EnvValues == {None, "", "set"}

\* ------------------------------------------------------------ the script
\* not SUPABASE_URL or not SUPABASE_SERVICE_KEY
Falsy(v) == v = None \/ v = ""
CredentialsMissing_BothOnly(url, key) == Falsy(url) /\ Falsy(key)
CredentialsMissing(url, key) == Falsy(url) \/ Falsy(key)

\* The state once load_dotenv() has run.
Init ==
    /\ env \in [url : EnvValues, key : EnvValues]
    /\ pc = "init"
    /\ supabase = None
    /\ queries = <<>>
    /\ conversations = <<>>
    /\ knowledge_base_count = 0
    /\ last_ingested = <<>>
    /\ leads = <<>>
    /\ escalations = <<>>
    /\ metrics = <<>>
    /\ conv_by_date = <<>>
    /\ recent = <<>>
    /\ lead_rows = <<>>
    /\ esc_rows = <<>>
    /\ error = None

\* supabase = init_supabase_client(): st.stop() ends the script.
InitSupabaseClient ==
    /\ pc = "init"
    /\ IF CredentialsMissing(env.url, env.key)
       THEN /\ error' = "Supabase URL or Service Key is missing"
            /\ pc' = "stopped"
            /\ UNCHANGED supabase
       ELSE /\ supabase' = "client"
            /\ pc' = "main"
            /\ UNCHANGED error
    /\ UNCHANGED <<env, queries, conversations, knowledge_base_count,
                   last_ingested, leads, escalations, metrics, conv_by_date,
                   recent, lead_rows, esc_rows>>

\* main() up to conversations = fetch_conversation_history()
FetchConversationHistory ==
    /\ pc = "main"
    /\ supabase # None
    /\ \E data \in StoredConversations : conversations' = data
    /\ queries' = Append(queries, "conversation_history")
    /\ pc' = "fetch_kb"
    /\ UNCHANGED <<env, supabase, knowledge_base_count, last_ingested, leads,
                   escalations, metrics, conv_by_date, recent, lead_rows,
                   esc_rows, error>>

\* knowledge_base_count = fetch_knowledge_base_info()
FetchKnowledgeBaseInfo ==
    /\ pc = "fetch_kb"
    /\ supabase # None
    /\ \E count \in 0..MaxDocs : knowledge_base_count' = count
    /\ queries' = Append(queries, "documents")
    /\ pc' = "fetch_log"
    /\ UNCHANGED <<env, supabase, conversations, last_ingested, leads,
                   escalations, metrics, conv_by_date, recent, lead_rows,
                   esc_rows, error>>

\* last_ingested = fetch_ingestion_log(): the newest row's updated_at, or None.
FetchIngestionLog ==
    /\ pc = "fetch_log"
    /\ supabase # None
    /\ \E data \in {<<>>, <<[updated_at |-> MaxTick]>>} :
          last_ingested' = IF data # <<>> THEN <<data[1].updated_at>> ELSE <<>>
    /\ queries' = Append(queries, "ingestion_log")
    /\ pc' = "process"
    /\ UNCHANGED <<env, supabase, conversations, knowledge_base_count, leads,
                   escalations, metrics, conv_by_date, recent, lead_rows,
                   esc_rows, error>>

\* The loops of "Process Data".
ProcessData ==
    /\ pc = "process"
    /\ LET r == Classify(conversations) IN
         /\ leads' = r.leads
         /\ escalations' = r.escalations
         /\ IF r.raised # None
            THEN pc' = "error" /\ error' = r.raised
            ELSE pc' = "metrics" /\ UNCHANGED error
    /\ UNCHANGED <<env, supabase, queries, conversations, knowledge_base_count,
                   last_ingested, metrics, conv_by_date, recent, lead_rows,
                   esc_rows>>

\* The four st.metric calls of "Key Metrics".
KeyMetrics ==
    /\ pc = "metrics"
    /\ metrics' = <<Len(conversations), Len(leads), Len(escalations),
                    knowledge_base_count>>
    /\ pc' = "charts"
    /\ UNCHANGED <<env, supabase, queries, conversations, knowledge_base_count,
                   last_ingested, leads, escalations, conv_by_date, recent,
                   lead_rows, esc_rows, error>>

\* "Visualizations": the chart is drawn only  if conversations.
Visualizations ==
    /\ pc = "charts"
    /\ conv_by_date' = IF conversations # <<>> THEN ConvByDate(conversations)
                       ELSE conv_by_date
    /\ pc' = "tab1"
    /\ UNCHANGED <<env, supabase, queries, conversations, knowledge_base_count,
                   last_ingested, leads, escalations, metrics, recent,
                   lead_rows, esc_rows, error>>

\* with tab1: the expanders of the most recent conversations.
RecentTab ==
    /\ pc = "tab1"
    /\ LET r == RenderRecent(TopRecent(conversations), 1,
                             [shown |-> <<>>, raised |-> None]) IN
         /\ recent' = r.shown
         /\ IF r.raised # None
            THEN pc' = "error" /\ error' = r.raised
            ELSE pc' = "tab2" /\ UNCHANGED error
    /\ UNCHANGED <<env, supabase, queries, conversations, knowledge_base_count,
                   last_ingested, leads, escalations, metrics, conv_by_date,
                   lead_rows, esc_rows>>

\* with tab2: the Leads table, built in full before st.table shows it.
LeadsTab ==
    /\ pc = "tab2"
    /\ LET t == LeadsTable(leads) IN
         IF t.raised # None
         THEN pc' = "error" /\ error' = t.raised /\ UNCHANGED lead_rows
         ELSE pc' = "tab3" /\ lead_rows' = t.rows /\ UNCHANGED error
    /\ UNCHANGED <<env, supabase, queries, conversations, knowledge_base_count,
                   last_ingested, leads, escalations, metrics, conv_by_date,
                   recent, esc_rows>>

\* with tab3: the Escalations table.
EscalationsTab ==
    /\ pc = "tab3"
    /\ LET t == EscalationsTable(escalations) IN
         IF t.raised # None
         THEN pc' = "error" /\ error' = t.raised /\ UNCHANGED esc_rows
         ELSE pc' = "done" /\ esc_rows' = t.rows /\ UNCHANGED error
    /\ UNCHANGED <<env, supabase, queries, conversations, knowledge_base_count,
                   last_ingested, leads, escalations, metrics, conv_by_date,
                   recent, lead_rows>>

Next ==
    \/ InitSupabaseClient
    \/ FetchConversationHistory
    \/ FetchKnowledgeBaseInfo
    \/ FetchIngestionLog
    \/ ProcessData
    \/ KeyMetrics
    \/ Visualizations
    \/ RecentTab
    \/ LeadsTab
    \/ EscalationsTab

Spec == Init /\ [][Next]_vars

\* ============================================================ properties

\* The classification pass has run to its end.
Classified ==
    \/ pc \in {"metrics", "charts", "tab1", "tab2", "tab3", "done"}
    \/ pc = "error" /\ metrics # <<>>

\* The classification pass was left by an exception.
ClassificationFailed == pc = "error" /\ metrics = <<>>

InSeq(x, seq) == \E i \in DOMAIN seq : seq[i] = x
Occurrences(x, seq) == Cardinality({i \in DOMAIN seq : seq[i] = x})

\* The outcome the ordered marker list gives a text.
MarkerOutcome(content) ==
    IF Contains(content, <<Ive, Sched>>) THEN "lead"
    ELSE IF Contains(content, <<Ive, Sent>>) THEN "lead"
    ELSE IF Contains(content, <<Ive, Passed, OnTo>>) THEN "escalation"
    ELSE "none"

HasText(message) == "content" \in DOMAIN message.data
HistoryOf(conv) == IF "history" \in DOMAIN conv THEN conv.history ELSE <<>>

\* Positions of the AI messages of conv that contain a marker phrase.
MarkerPositions(conv) ==
    {i \in DOMAIN HistoryOf(conv) :
        /\ HistoryOf(conv)[i].type = "ai"
        /\ HasText(HistoryOf(conv)[i])
        /\ MarkerOutcome(HistoryOf(conv)[i].data.content) # "none"}

Least(S) == CHOOSE i \in S : \A j \in S : i <= j

\* The outcome of the first AI message of conv that contains a marker phrase.
FirstMatchOutcome(conv) ==
    IF MarkerPositions(conv) = {} THEN "none"
    ELSE MarkerOutcome(HistoryOf(conv)[Least(MarkerPositions(conv))].data.content)

\* C1: after the classification pass no conversation is in both leads and
\* escalations, so every conversation is in exactly one of leads, escalations
\* and neither.
C1_LeadsEscalationsDisjoint ==
    Classified =>
        \A k \in DOMAIN conversations :
            ~(InSeq(conversations[k], leads) /\ InSeq(conversations[k], escalations))

\* C2: a conversation is classified by its first AI message that contains a
\* marker phrase: it is in leads exactly if that message maps to lead, and in
\* escalations exactly if that message maps to escalation.
C2_FirstMatchWins ==
    Classified =>
        \A k \in DOMAIN conversations :
            /\ InSeq(conversations[k], leads)
                 <=> FirstMatchOutcome(conversations[k]) = "lead"
            /\ InSeq(conversations[k], escalations)
                 <=> FirstMatchOutcome(conversations[k]) = "escalation"

\* C3: each conversation is recorded at most once across leads and
\* escalations, and the displayed lead count plus escalation count never
\* exceeds the displayed total.
C3_RecordedAtMostOnce ==
    /\ Classified =>
         \A k \in DOMAIN conversations :
             Occurrences(conversations[k], leads)
               + Occurrences(conversations[k], escalations) <= 1
    /\ metrics # <<>> => metrics[2] + metrics[3] <= metrics[1]

\* C4: a conversation with no AI message containing a marker phrase is never in
\* leads nor in escalations, and the total shown counts every conversation.
C4_NoMatchIsNeither ==
    /\ \A k \in DOMAIN conversations :
          MarkerPositions(conversations[k]) = {} =>
              /\ ~InSeq(conversations[k], leads)
              /\ ~InSeq(conversations[k], escalations)
    /\ metrics # <<>> => metrics[1] = Len(conversations)

\* C4 witness: the metrics are shown for a batch holding a conversation whose
\* only marker phrase is in a human message.
C4_Witness ==
    /\ metrics # <<>>
    /\ \E k \in DOMAIN conversations :
          /\ MarkerPositions(conversations[k]) = {}
          /\ \E i \in DOMAIN HistoryOf(conversations[k]) :
                /\ HistoryOf(conversations[k])[i].type = "human"
                /\ HasText(HistoryOf(conversations[k])[i])
                /\ MarkerOutcome(HistoryOf(conversations[k])[i].data.content) # "none"

\* The conversations without their messages that lack the content field.
RECURSIVE WithText(_)
WithText(history) ==
    IF history = <<>> THEN <<>>
    ELSE IF HasText(Head(history)) THEN <<Head(history)>> \o WithText(Tail(history))
    ELSE WithText(Tail(history))

WellFormed(convs) ==
    [k \in DOMAIN convs |->
        IF "history" \in DOMAIN convs[k]
        THEN [convs[k] EXCEPT !.history = WithText(@)]
        ELSE convs[k]]

Ids(seq) == [i \in DOMAIN seq |-> seq[i].conversation_id]

\* C5: a message without the content field is skipped: the classification pass
\* never ends in an error, and it classifies the conversations as it would
\* without that message.
C5_MalformedMessageSkipped ==
    /\ ~ClassificationFailed
    /\ Classified =>
         /\ Ids(leads) = Ids(Classify(WellFormed(conversations)).leads)
         /\ Ids(escalations) = Ids(Classify(WellFormed(conversations)).escalations)

\* C6: with the store endpoint or the access credential missing, the script
\* stops at start-up with the error message: no client exists, no query is
\* issued and main() does not run.
C6_FailFastOnMissingCredentials ==
    (env.url \in {None, ""} \/ env.key \in {None, ""}) =>
        /\ supabase = None
        /\ queries = <<>>
        /\ pc \in {"init", "stopped"}
        /\ pc = "stopped" => error = "Supabase URL or Service Key is missing"

\* C6 witness: start-up has stopped with the endpoint set and the key unset.
C6_Witness == pc = "stopped" /\ env.url = "set" /\ env.key = None

\* Text of the first AI message of conv whose outcome is the given one.
TriggerText(conv, outcome) ==
    LET at == {i \in MarkerPositions(conv) :
                  MarkerOutcome(conv.history[i].data.content) = outcome}
    IN conv.history[Least(at)].data.content

\* C7: the Details of every row of the Leads and Escalations tables is the
\* text of the first AI message of the conversation that contains a marker
\* phrase of the table's outcome.
C7_DetailsIsTriggerMessage ==
    /\ \A r \in DOMAIN lead_rows :
          lead_rows[r].details
            = TriggerText(conversations[lead_rows[r].conversation_id], "lead")
    /\ \A r \in DOMAIN esc_rows :
          esc_rows[r].details
            = TriggerText(conversations[esc_rows[r].conversation_id], "escalation")

RECURSIVE SumCounts(_)
SumCounts(rows) == IF rows = <<>> THEN 0 ELSE Head(rows).counts + SumCounts(Tail(rows))

\* The chart section has run.
Charted == pc \in {"tab1", "tab2", "tab3", "done"} \/ (pc = "error" /\ recent # <<>>)

\* C8: for a non-empty list of conversations the histogram has exactly one row
\* per calendar date of updated_at, the row's count is the number of
\* conversations of that date, no count is zero, and the counts sum to the
\* number of conversations.
C8_HistogramCorrect ==
    (Charted /\ conversations # <<>>) =>
        LET days == {conversations[k].updated_at \div TicksPerDay
                        : k \in DOMAIN conversations}
        IN /\ {conv_by_date[r].date : r \in DOMAIN conv_by_date} = days
           /\ Len(conv_by_date) = Cardinality(days)
           /\ \A r \in DOMAIN conv_by_date :
                 /\ conv_by_date[r].counts > 0
                 /\ conv_by_date[r].counts
                      = Cardinality({k \in DOMAIN conversations :
                            conversations[k].updated_at \div TicksPerDay
                              = conv_by_date[r].date})
           /\ SumCounts(conv_by_date) = Len(conversations)

\* C8 witness: a chart of several days, one of them with several conversations
\* at different times of day.
C8_Witness ==
    /\ Charted
    /\ Len(conv_by_date) >= 2
    /\ \E r \in DOMAIN conv_by_date : conv_by_date[r].counts >= 2
    /\ \E j, k \in DOMAIN conversations :
          /\ conversations[j].updated_at # conversations[k].updated_at
          /\ conversations[j].updated_at \div TicksPerDay
               = conversations[k].updated_at \div TicksPerDay

DistinctUpdatedAt ==
    \A j, k \in DOMAIN conversations :
        j # k => conversations[j].updated_at # conversations[k].updated_at

\* The Recent Conversations tab was rendered to its end.
RecentShown == pc \in {"tab2", "tab3", "done"} \/ (pc = "error" /\ lead_rows # <<>>)

\* C9: with distinct updated_at values the Recent Conversations tab shows
\* min(10, n) conversations, newest first in strictly descending order, each at
\* least as recent as every conversation that is not shown.
C9_RecentTopTen ==
    (RecentShown /\ DistinctUpdatedAt) =>
        /\ Len(recent) = IF Len(conversations) < 10 THEN Len(conversations) ELSE 10
        /\ \A i \in DOMAIN recent : InSeq(recent[i], conversations)
        /\ \A i, j \in DOMAIN recent :
              i < j => recent[i].updated_at > recent[j].updated_at
        /\ \A i \in DOMAIN recent : \A k \in DOMAIN conversations :
              ~InSeq(conversations[k], recent)
                 => recent[i].updated_at >= conversations[k].updated_at

\* C9 witness: more than ten conversations, fetched in an order that is not the
\* order shown, and ten of them shown.
C9_Witness ==
    /\ RecentShown
    /\ DistinctUpdatedAt
    /\ Len(conversations) > 10
    /\ Len(recent) = 10
    /\ recent # SubSeq(conversations, 1, 10)

\* C10: every conversation the classification pass put in leads has a message
\* that passes the Leads detail filter, every one it put in escalations has a
\* message that passes the Escalations detail filter, and building the tables
\* never raises IndexError.
C10_DetailAlwaysFound ==
    /\ error # "IndexError"
    /\ Classified =>
         /\ \A i \in DOMAIN leads :
               FilterDetails(leads[i].history, LeadDetailPhrase, 1,
                             [list |-> <<>>, raised |-> None]).list # <<>>
         /\ \A i \in DOMAIN escalations :
               FilterDetails(escalations[i].history, EscDetailPhrase, 1,
                             [list |-> <<>>, raised |-> None]).list # <<>>

\* C10 witness: both tables were built, each with at least one row.
C10_Witness == pc = "done" /\ lead_rows # <<>> /\ esc_rows # <<>>

====
